---------------------------- MODULE Spec2Model ----------------------------
(***************************************************************************)
(* check-broken-packages (src/check-broken-packages/src/main.rs).          *)
(*                                                                         *)
(* The program lists the foreign packages, finds the executable files of   *)
(* each one in a pool of discovery workers, runs ldd on each file in a     *)
(* pool of check workers, checks the enabled systemd service links on the  *)
(* main thread, and prints a report.  A detached thread looks for Python   *)
(* packages of an older interpreter.                                       *)
(*                                                                         *)
(* Text is modelled as sequences of one-character strings, so that the     *)
(* parsing done by get_missing_dependencies is computed, not assumed.      *)
(* External commands always return valid UTF-8 text.                       *)
(***************************************************************************)
EXTENDS Naturals, Integers, Sequences, FiniteSets, Bags, TLC

(***************************************************************************)
(* Bounds of the model.                                                    *)
(***************************************************************************)
MaxPackages == 2
MaxCpu == 2
MaxLines == 2
MaxPrefix == 1
MaxNodes == 4
MaxVersionParts == 4
MaxArgs == 2

(***************************************************************************)
(* Generic helpers on sequences.                                           *)
(***************************************************************************)
Range(s) == {s[i] : i \in 1..Len(s)}

SeqsUpTo(S, n) == UNION {[1..k -> S] : k \in 0..n}

RECURSIVE SeqToBag(_)
SeqToBag(s) ==
    IF s = <<>> THEN EmptyBag ELSE SetToBag({Head(s)}) (+) SeqToBag(Tail(s))

RECURSIVE Flatten(_)
Flatten(ss) == IF ss = <<>> THEN <<>> ELSE Head(ss) \o Flatten(Tail(ss))

(***************************************************************************)
(* Text: str::ends_with, str::split(' ').next(), str::trim_start.          *)
(***************************************************************************)
SP == " "
TAB == "\t"
WhiteSpace == {SP, TAB}

\* the literal of line 205
NOT_FOUND == <<"=", ">", " ", "n", "o", "t", " ", "f", "o", "u", "n", "d">>

\* l.ends_with(suffix)
ends_with(l, suffix) ==
    /\ Len(l) >= Len(suffix)
    /\ SubSeq(l, Len(l) - Len(suffix) + 1, Len(l)) = suffix

\* l.split(' ').next().unwrap(): the text before the first space
RECURSIVE split_first(_)
split_first(l) ==
    IF l = <<>> \/ Head(l) = SP THEN <<>> ELSE <<Head(l)>> \o split_first(Tail(l))

\* s.trim_start()
RECURSIVE trim_start(_)
trim_start(s) ==
    IF s # <<>> /\ Head(s) \in WhiteSpace THEN trim_start(Tail(s)) ELSE s

contains_not_found(l) ==
    \E i \in 1..Len(l) :
        /\ i + Len(NOT_FOUND) - 1 <= Len(l)
        /\ SubSeq(l, i, i + Len(NOT_FOUND) - 1) = NOT_FOUND

\* the filter of line 205
is_missing_line(l) == ends_with(l, NOT_FOUND)

\* the map of line 206
missing_dep_name(l) == trim_start(split_first(l))

\* lines 200-210: the names pushed for the lines of a successful ldd run
RECURSIVE parse_ldd_lines(_)
parse_ldd_lines(lines) ==
    IF lines = <<>> THEN <<>>
    ELSE (IF is_missing_line(Head(lines))
            THEN <<missing_dep_name(Head(lines))>> ELSE <<>>)
         \o parse_ldd_lines(Tail(lines))

missing_deps_whatever_status(success, lines) == parse_ldd_lines(lines)

\* lines 200-212: nothing is parsed when ldd exits non-zero
missing_deps_of_output(success, lines) ==
    IF success THEN parse_ldd_lines(lines) ELSE <<>>

(***************************************************************************)
(* Text: str::starts_with, str::split, u8::from_str and the Display of u8. *)
(***************************************************************************)
\* l.starts_with(prefix)
starts_with(l, prefix) ==
    /\ Len(l) >= Len(prefix)
    /\ SubSeq(l, 1, Len(prefix)) = prefix

\* s.split(sep): the parts between the separators, at least one part
RECURSIVE split(_, _)
split(s, sep) ==
    IF s = <<>> THEN << <<>> >>
    ELSE LET rest == split(Tail(s), sep) IN
         IF Head(s) = sep THEN << <<>> >> \o rest
         ELSE << <<Head(s)>> \o Head(rest) >> \o Tail(rest)

DigitChars == <<"0", "1", "2", "3", "4", "5", "6", "7", "8", "9">>
Digits == Range(DigitChars)
digit_value(c) == (CHOOSE i \in 1..Len(DigitChars) : DigitChars[i] = c) - 1

\* the number a string of decimal digits denotes
RECURSIVE decimal_value(_)
decimal_value(digits) ==
    IF digits = <<>> THEN 0
    ELSE decimal_value(SubSeq(digits, 1, Len(digits) - 1)) * 10
         + digit_value(digits[Len(digits)])

\* the largest u8
U8_MAX == 255

from_str_wrapping(src) ==
    LET digits == IF src # <<>> /\ Head(src) = "+" THEN Tail(src) ELSE src IN
    IF digits = <<>> \/ \E i \in 1..Len(digits) : digits[i] \notin Digits
      THEN [ok |-> FALSE, value |-> 0]
      ELSE [ok |-> TRUE, value |-> decimal_value(digits) % (U8_MAX + 1)]

\* u8::from_str(src): decimal digits after an optional plus sign; the empty
\* string, a sign alone, any other character and a value above 255 are errors
u8_from_str(src) ==
    LET digits == IF src # <<>> /\ Head(src) = "+" THEN Tail(src) ELSE src IN
    IF digits = <<>> \/ \E i \in 1..Len(digits) : digits[i] \notin Digits
      THEN [ok |-> FALSE, value |-> 0]
      ELSE IF decimal_value(digits) > U8_MAX THEN [ok |-> FALSE, value |-> 0]
      ELSE [ok |-> TRUE, value |-> decimal_value(digits)]

\* format!("{}", n) of a u8
RECURSIVE to_string(_)
to_string(n) ==
    IF n < 10 THEN <<DigitChars[n + 1]>>
    ELSE to_string(n \div 10) \o <<DigitChars[(n % 10) + 1]>>

(***************************************************************************)
(* The environment the program runs in: the filesystem, pacman and ldd.    *)
(* It does not change during a run.                                        *)
(***************************************************************************)
\* A directory entry: its kind, whether it has an execute bit and, for a
\* symlink, the text readlink returns and the absolute path of the entry the
\* kernel goes to from it: the text itself when it is an absolute path, the
\* text taken from the directory of the link when it is a relative path.
Dir(p) == [kind |-> "dir", exec |-> TRUE, target |-> p, text |-> p]
RegularFile(p, x) == [kind |-> "file", exec |-> x, target |-> p, text |-> p]
Symlink(t) == [kind |-> "symlink", exec |-> TRUE, target |-> t, text |-> t]
RelativeSymlink(t, text) ==
    [kind |-> "symlink", exec |-> TRUE, target |-> t, text |-> text]

\* what lstat and readlink see; a path outside the domain does not exist.
\* Every name is an absolute path: unit/ is short for
\* /usr/lib/systemd/system/ and wants/ for a .wants directory of
\* /etc/systemd/system/.
FileSystem ==
    [p \in {"/usr/bin/", "/usr/bin/a", "/usr/bin/b", "/opt/x/c", "/usr/share/d/",
            "/usr/share/doc/r", "unit/ok.service",
            "wants/ok", "wants/chain", "wants/dangling", "wants/dir", "wants/loop"} |->
        CASE p = "/usr/bin/" -> Dir(p)
          [] p = "/usr/bin/a" -> RegularFile(p, TRUE)
          [] p = "/usr/bin/b" -> RegularFile(p, TRUE)
          [] p = "/opt/x/c" -> RegularFile(p, TRUE)
          [] p = "/usr/share/d/" -> Dir(p)
          [] p = "/usr/share/doc/r" -> RegularFile(p, FALSE)
          [] p = "unit/ok.service" -> RegularFile(p, FALSE)
          [] p = "wants/ok" -> Symlink("unit/ok.service")
          [] p = "wants/chain" -> Symlink("wants/ok")
          [] p = "wants/dangling" -> Symlink("unit/gone.service")
          [] p = "wants/dir" -> Symlink("/usr/share/d/")
          [] p = "wants/loop" -> Symlink("wants/loop")]

IoError == [ok |-> FALSE, kind |-> "none", exec |-> FALSE]

\* the directory of the links of the generated filesystems, the names of
\* their entries as absolute paths and as paths relative to that directory
LINK_DIR == "/etc/wants/"
ROOT == "/"
NOWHERE == "/nowhere"
NodeNames == <<"/etc/wants/n1", "/etc/wants/n2", "/etc/wants/n3", "/etc/wants/n4",
               "/etc/wants/n5", "/etc/wants/n6">>
RelativeNames == <<"n1", "n2", "n3", "n4", "n5", "n6">>

\* The path a system call works on: an absolute path as it is, a relative
\* path taken from the working directory of the process (which holds an
\* entry of that name only when it is the directory of the links).
at_cwd(cwd, path) ==
    IF path \in Range(RelativeNames)
      THEN (IF cwd = LINK_DIR
              THEN NodeNames[CHOOSE i \in 1..Len(RelativeNames) : RelativeNames[i] = path]
              ELSE NOWHERE)
      ELSE path

\* stat(2) in the filesystem fs: it follows every symlink of a chain and
\* fails on a missing entry and on a chain that does not end (ELOOP)
RECURSIVE stat_in(_, _, _)
stat_in(fs, path, hops) ==
    IF path \notin DOMAIN fs THEN IoError
    ELSE LET e == fs[path] IN
         IF e.kind = "symlink"
           THEN (IF hops = 0 THEN IoError ELSE stat_in(fs, e.target, hops - 1))
           ELSE [ok |-> TRUE, kind |-> e.kind, exec |-> e.exec]

\* fs::metadata is stat(2)
metadata_in(fs, cwd, path) == stat_in(fs, at_cwd(cwd, path), Cardinality(DOMAIN fs))

\* fs::read_link is readlink(2): it returns the text of a symlink and fails
\* on anything else
read_link_in(fs, cwd, path) ==
    LET p == at_cwd(cwd, path) IN
    IF p \in DOMAIN fs /\ fs[p].kind = "symlink"
      THEN [ok |-> TRUE, target |-> fs[p].text]
      ELSE [ok |-> FALSE, target |-> path]

\* the system calls in the filesystem of a run of main()
stat(path, hops) == stat_in(FileSystem, path, hops)
metadata(path) == metadata_in(FileSystem, ROOT, path)
read_link(path) == read_link_in(FileSystem, ROOT, path)

\* the foreign packages that may be installed, in the order of their names,
\* which is the order pacman -Qqm prints them in
PackageNames == <<"pkgEmpty", "pkgFail", "pkgOne", "pkgTwo">>
Packages == Range(PackageNames)

\* the subsequence of s made of its elements in S
RECURSIVE SelectIn(_, _)
SelectIn(s, S) ==
    IF s = <<>> THEN <<>>
    ELSE (IF Head(s) \in S THEN <<Head(s)>> ELSE <<>>) \o SelectIn(Tail(s), S)

\* pacman -Qqm (lines 148-160): any of the packages may be installed
Inventories(n) ==
    {SelectIn(PackageNames, S) : S \in {T \in SUBSET Packages : Cardinality(T) <= n}}

\* pacman -Ql <package>: exit status and output lines, each line the
\* space-separated fields "<package> <path>"
PacmanQl(package) ==
    CASE package = "pkgFail" -> [success |-> FALSE, lines |-> <<>>]
      [] package = "pkgEmpty" ->
           [success |-> TRUE,
            lines |-> << <<"pkgEmpty", "/usr/share/d/">>,
                         <<"pkgEmpty", "/usr/share/doc/r">>,
                         <<"pkgEmpty", "/gone">> >>]
      [] package = "pkgOne" ->
           [success |-> TRUE,
            lines |-> << <<"pkgOne", "/usr/bin/">>, <<"pkgOne", "/usr/bin/a">> >>]
      [] package = "pkgTwo" ->
           [success |-> TRUE,
            lines |-> << <<"pkgTwo", "/opt/x/c">>, <<"pkgTwo", "/usr/bin/b">> >>]

\* names and line tails ldd prints
libfoo == <<"l", "i", "b", "f", "o", "o", ".", "s", "o", ".", "1">>
libbar == <<"l", "i", "b", "b", "a", "r", ".", "s", "o">>
libc == <<"l", "i", "b", "c">>
RESOLVED == <<"=", ">", " ", "/", "l", " ", "(", "0", ")">>
VdsoLine == <<TAB, "v", "d", "s", "o", " ", "(", "0", ")">>
MissingLine(name) == <<TAB>> \o name \o <<SP>> \o NOT_FOUND
ResolvedLine(name) == <<TAB>> \o name \o <<SP>> \o RESOLVED

\* ldd <exec_file>: whether the command could be run, its exit status and its
\* output lines.  /usr/bin/b is not a file ldd
\* can load (or is gone by the time it is checked): ldd exits non-zero.
LddRun(exec_file) ==
    CASE exec_file = "/usr/bin/a" ->
           [spawned |-> TRUE, success |-> TRUE,
            lines |-> <<VdsoLine, MissingLine(libfoo), ResolvedLine(libc)>>]
      [] exec_file = "/opt/x/c" ->
           [spawned |-> TRUE, success |-> TRUE,
            lines |-> <<MissingLine(libbar), ResolvedLine(libc), MissingLine(libbar)>>]
      [] OTHER ->
           [spawned |-> TRUE, success |-> FALSE, lines |-> <<MissingLine(libbar)>>]

\* pacman -Qi python and the directories of /usr/lib, as the Python thread
\* finds them.  A directory entry is what glob yields for it (Err for one it
\* cannot read) with the lines pacman -Qoq prints for the directory.
VERSION == <<"V", "e", "r", "s", "i", "o", "n">>
PYTHON_LIB == <<"/usr/lib/python">>
QiLines(version) ==
    << <<"N", "a", "m", "e", SP, ":", SP, "p", "y">>,
       VERSION \o <<SP, SP, ":", SP>> \o version,
       <<"U", "R", "L", SP, ":", SP, "h", ":", "/">> >>

LibEntry(version, owners) ==
    [ok |-> TRUE, path |-> PYTHON_LIB \o version, owners |-> owners]

PythonInstalled ==
    [success |-> TRUE, lines |-> QiLines(<<"3", ".", "8", ".", "2", "-", "1">>)]
LibDirs ==
    <<LibEntry(<<"3", ".", "7">>, <<"python-foo">>),
      LibEntry(<<"3", ".", "8">>, <<"python", "python-bar">>)>>

\* the environments of the Python thread: a readable installation with a
\* directory of an older interpreter, no python package, a version without
\* release and package parts, a directory glob cannot read, and a pacman that
\* cannot be run for -Qoq
PythonEnvs ==
    {[qi |-> PythonInstalled, lib_entries |-> LibDirs, pacman_runs |-> TRUE],
     [qi |-> [success |-> FALSE, lines |-> <<>>], lib_entries |-> LibDirs,
      pacman_runs |-> TRUE],
     [qi |-> [success |-> TRUE, lines |-> QiLines(<<"3", ".", "8">>)],
      lib_entries |-> LibDirs, pacman_runs |-> TRUE],
     [qi |-> PythonInstalled,
      lib_entries |-> <<[LibDirs[1] EXCEPT !.ok = FALSE], LibDirs[2]>>,
      pacman_runs |-> TRUE],
     [qi |-> PythonInstalled, lib_entries |-> LibDirs, pacman_runs |-> FALSE]}

\* Command::output() fails when the system cannot start the process.  So
\* that the model stays small this happens, or not, to the ldd of /usr/bin/b
\* only.
NotSpawned == [spawned |-> FALSE, success |-> FALSE, lines |-> <<>>]
LddOutcomes(exec_file) ==
    {LddRun(exec_file)} \cup (IF exec_file = "/usr/bin/b" THEN {NotSpawned} ELSE {})

(***************************************************************************)
(* The functions of main.rs.                                               *)
(***************************************************************************)
listed_files_in(fs, cwd, lines) ==
    [ok |-> TRUE, files |-> [i \in 1..Len(lines) |-> lines[i][2]]]

\* lines 171-187: the loop over the lines of pacman -Ql, in the filesystem fs
RECURSIVE executable_files_in(_, _, _)
executable_files_in(fs, cwd, lines) ==
    IF lines = <<>> THEN [ok |-> TRUE, files |-> <<>>]
    ELSE LET line == Head(lines)
             rest == executable_files_in(fs, cwd, Tail(lines))
         IN  IF Len(line) < 2 THEN [ok |-> FALSE, files |-> <<>>]
             ELSE LET path == line[2]
                      md == metadata_in(fs, cwd, path)
                  IN  IF ~rest.ok THEN rest
                      ELSE IF md.ok /\ md.kind = "file" /\ md.exec
                        THEN [ok |-> TRUE, files |-> <<path>> \o rest.files]
                        ELSE rest

executable_files_of_lines(lines) == executable_files_in(FileSystem, ROOT, lines)

\* lines 162-190
get_package_executable_files(package) ==
    LET output == PacmanQl(package) IN
    IF ~output.success THEN [ok |-> FALSE, files |-> <<>>]
    ELSE executable_files_of_lines(output.lines)

\* lines 192-213, on what came of Command::output()
missing_dependencies_of(output) ==
    IF ~output.spawned THEN [ok |-> FALSE, deps |-> <<>>]
    ELSE [ok |-> TRUE, deps |-> missing_deps_of_output(output.success, output.lines)]

\* lines 192-213, when ldd can be started
get_missing_dependencies(exec_file) == missing_dependencies_of(LddRun(exec_file))

\* lines 238-261, in the filesystem fs
RECURSIVE is_valid_link_in(_, _, _)
is_valid_link_in(fs, cwd, current) ==
    LET link == read_link_in(fs, cwd, current) IN
    IF ~link.ok THEN [ok |-> FALSE, valid |-> FALSE]
    ELSE LET md == metadata_in(fs, cwd, link.target) IN
         IF ~md.ok THEN [ok |-> TRUE, valid |-> FALSE]
         ELSE IF md.kind = "file" THEN [ok |-> TRUE, valid |-> TRUE]
         ELSE IF md.kind = "symlink" THEN is_valid_link_in(fs, cwd, link.target)
         ELSE [ok |-> FALSE, valid |-> FALSE]

is_valid_link_from(current) == is_valid_link_in(FileSystem, ROOT, current)

is_valid_link(link) == is_valid_link_from(link)

ParseError == [ok |-> FALSE, major |-> 0, minor |-> 0, release |-> 0, package |-> 0]

\* lines 78-105: the four parts of the version string
parse_version(version_str) ==
    LET dot_iter == split(version_str, ".")
        major == u8_from_str(dot_iter[1])
    IN  IF ~major.ok \/ Len(dot_iter) < 2 THEN ParseError
        ELSE LET minor == u8_from_str(dot_iter[2]) IN
        IF ~minor.ok \/ Len(dot_iter) < 3 THEN ParseError
        ELSE LET dash_iter == split(dot_iter[3], "-")
                 release == u8_from_str(dash_iter[1])
             IN  IF ~release.ok \/ Len(dash_iter) < 2 THEN ParseError
                 ELSE LET package == u8_from_str(dash_iter[2]) IN
                      IF ~package.ok THEN ParseError
                      ELSE [ok |-> TRUE, major |-> major.value,
                            minor |-> minor.value, release |-> release.value,
                            package |-> package.value]

\* lines 56-106, on the output of pacman -Qi python
get_python_version(output) ==
    IF ~output.success THEN ParseError
    ELSE LET version_lines == SelectSeq(output.lines, LAMBDA l : starts_with(l, VERSION))
         IN  IF version_lines = <<>> THEN ParseError
             ELSE LET parts == split(Head(version_lines), ":") IN
                  IF Len(parts) < 2 THEN ParseError
                  ELSE parse_version(trim_start(parts[2]))

\* lines 136-141: the couples of a directory that are not in the Vec yet
RECURSIVE push_couples(_, _, _)
push_couples(packages, dir_packages, python_dir) ==
    IF dir_packages = <<>> THEN packages
    ELSE LET couple == <<Head(dir_packages), python_dir>> IN
         push_couples(IF couple \in Range(packages) THEN packages
                      ELSE Append(packages, couple),
                      Tail(dir_packages), python_dir)

\* lines 128-143: the loop over the entries glob yields
RECURSIVE broken_packages_of(_, _, _, _)
broken_packages_of(entries, current_python_dir, pacman_runs, packages) ==
    IF entries = <<>> THEN [ok |-> TRUE, packages |-> packages]
    ELSE LET entry == Head(entries) IN
         IF ~entry.ok THEN [ok |-> FALSE, packages |-> <<>>]
         ELSE IF entry.path = current_python_dir
           THEN broken_packages_of(Tail(entries), current_python_dir, pacman_runs,
                                   packages)
         ELSE IF ~pacman_runs THEN [ok |-> FALSE, packages |-> <<>>]
         ELSE broken_packages_of(Tail(entries), current_python_dir, pacman_runs,
                                 push_couples(packages, entry.owners, entry.path))

\* lines 118-146
get_broken_python_packages(current_python_version, env) ==
    LET current_python_dir ==
            PYTHON_LIB \o to_string(current_python_version.major) \o <<".">>
            \o to_string(current_python_version.minor)
        pattern == PYTHON_LIB \o to_string(current_python_version.major)
        entries == SelectSeq(env.lib_entries, LAMBDA e : starts_with(e.path, pattern))
    IN  broken_packages_of(entries, current_python_dir, env.pacman_runs, <<>>)

FAILED_VERSION == "Failed to get Python version"
FAILED_LIST == "Failed to list Python packages"

sends_error_as_couple(env) ==
    [to_send |-> << <<"error", PYTHON_LIB>> >>, error |-> FAILED_VERSION]

\* lines 271-288: the Vec the thread sends and the error it prints
python_to_send(env) ==
    LET current_python_version == get_python_version(env.qi) IN
    IF ~current_python_version.ok
      THEN [to_send |-> <<>>, error |-> FAILED_VERSION]
      ELSE LET broken_python_packages ==
                   get_broken_python_packages(current_python_version, env)
           IN  IF broken_python_packages.ok
                 THEN [to_send |-> broken_python_packages.packages, error |-> ""]
                 ELSE [to_send |-> <<>>, error |-> FAILED_LIST]

(***************************************************************************)
(* The state of a run of main().                                           *)
(***************************************************************************)
VARIABLES
    aur_packages,              \* line 297: the inventory, in the order it is sent
    cpu_count,                 \* line 294
    enabled_sd_service_links,  \* line 300
    broken_sd_service_links,   \* line 301
    progress,                  \* the position of the progress bar (line 304)
    package_chan,              \* queue of the package name channel (line 359)
    exec_files_chan,           \* queue of the executable file channel (line 315)
    missing_deps_chan,         \* queue of the missing deps channel (line 311)
    python_chan,               \* queue of the Python broken packages channel (line 268)
    package_tx,                \* live Sender handles of each channel
    exec_files_tx,
    missing_deps_tx,
    package_rx,                \* live Receiver handles of each channel
    exec_files_rx,
    pc,                        \* where the main thread is
    next_package,              \* index of the loop of line 404
    next_link,                 \* index of the loop of line 412
    disc,                      \* the discovery workers (lines 367-397)
    check,                     \* the check workers (lines 322-351)
    python_thread,             \* the thread of lines 269-291
    stdout,                    \* the lines printed by println!
    inc_log,                   \* history: who called progress.inc for each package
    sent_deps,                 \* history: every record sent on missing_deps_tx
    python_error,              \* history: what the Python thread wrote with eprintln!
    recv_log,                  \* history: how often each message was received,
                               \* and each work unit sent
    ldd_output,                \* parser runs: the ldd output being parsed
    ldd_line,                  \* parser runs: index of the next line
    missing_deps,              \* parser runs: the Vec of line 193
    call_arg,                  \* function runs: the input of the function
    call_result                \* function runs: what the function returned

vars == <<aur_packages, cpu_count, enabled_sd_service_links, broken_sd_service_links,
          progress, package_chan, exec_files_chan, missing_deps_chan, python_chan,
          package_tx, exec_files_tx, missing_deps_tx, package_rx, exec_files_rx,
          pc, next_package, next_link, disc, check, python_thread, stdout,
          inc_log, sent_deps, python_error, recv_log, ldd_output, ldd_line,
          missing_deps, call_arg, call_result>>

env_vars == <<aur_packages, cpu_count, enabled_sd_service_links>>
parser_vars == <<ldd_output, ldd_line, missing_deps>>
fn_vars == <<call_arg, call_result>>

\* the enabled service links get_sd_enabled_service_links may find (line 300)
ServiceLinkChoices ==
    {<<>>, <<"wants/chain", "wants/dangling">>,
     <<"wants/ok", "wants/dir", "wants/dangling">>}

\* no function has been called on its own
NoCall == [fn |-> "", ok |-> FALSE, value |-> <<>>]

\* no message has been received yet
NothingReceived == [packages |-> EmptyBag, work |-> EmptyBag, sent_work |-> EmptyBag]

NoWork == [package |-> "", exec_filepath |-> "", package_last |-> FALSE]
IdleDiscovery == [pc |-> "recv", package |-> "", ok |-> TRUE, exec_files |-> <<>>, i |-> 0]
IdleCheck == [pc |-> "recv", work |-> NoWork, missing_deps |-> <<>>]

\* line 362
worker_count == IF cpu_count < Len(aur_packages) THEN cpu_count ELSE Len(aur_packages)

\* the state after line 311
Init ==
    /\ aur_packages \in Inventories(MaxPackages)
    /\ cpu_count \in 1..MaxCpu
    /\ enabled_sd_service_links \in ServiceLinkChoices
    /\ broken_sd_service_links = <<>>
    /\ progress = 0
    /\ package_chan = <<>>
    /\ exec_files_chan = <<>>
    /\ missing_deps_chan = <<>>
    /\ python_chan = <<>>
    /\ package_tx = 0
    /\ exec_files_tx = 0
    /\ missing_deps_tx = 1
    /\ package_rx = 0
    /\ exec_files_rx = 0
    /\ pc = "spawn_check"
    /\ next_package = 1
    /\ next_link = 1
    /\ disc = <<>>
    /\ check = <<>>
    /\ python_thread = "running"
    /\ stdout = <<>>
    /\ inc_log = [p \in Packages |-> <<>>]
    /\ sent_deps = <<>>
    /\ python_error = ""
    /\ recv_log = NothingReceived
    /\ ldd_output = [success |-> TRUE, lines |-> <<>>]
    /\ ldd_line = 0
    /\ missing_deps = <<>>
    /\ call_arg = <<>>
    /\ call_result = NoCall

(***************************************************************************)
(* Channels (crossbeam::unbounded) and handles.                            *)
(***************************************************************************)
\* drop(handle): one live handle less
drop(handles) == handles - 1

closed(chan, senders) == senders = 0

\* recv() returns Err only on a channel that is empty and has no sender left
disconnected(chan, senders) == chan = <<>> /\ senders = 0

\* The workers of a pool run the same closure and a blocked recv() wakes any
\* one of them: the waiting workers are interchangeable, so the one that
\* receives (or sees the channel disconnected) is the lowest-numbered one.
receives(workers, w) ==
    /\ workers[w].pc = "recv"
    /\ \A v \in DOMAIN workers : v < w => workers[v].pc # "recv"

scope_does_not_join(workers) == TRUE

\* cb_thread::scope returns once every thread spawned in it has ended
all_exited(workers) == \A w \in DOMAIN workers : workers[w].pc = "exited"

\* lines 329-333
missing_dep_record(work, missing_dep) ==
    <<work.package, work.exec_filepath, missing_dep>>

\* lines 386-390
exec_file_work(package, exec_files, i) ==
    [package |-> package, exec_filepath |-> exec_files[i],
     package_last |-> (i = Len(exec_files))]

reports_progress_every_file(work) == TRUE

\* line 347
reports_progress(work) == work.package_last

inc_lost(package, stage) ==
    /\ progress' = progress
    /\ inc_log' = [inc_log EXCEPT ![package] = Append(@, stage)]

\* progress.inc(1) on behalf of a package; the history keeps the stage that
\* called it and, for the check stage, the file that was being processed
LogInc(package, stage) ==
    /\ progress' = progress + 1
    /\ inc_log' = [inc_log EXCEPT ![package] = Append(@, stage)]

(***************************************************************************)
(* The main thread.                                                        *)
(***************************************************************************)
\* lines 313-355: the outer scope spawns the check workers and drops its
\* missing_deps_tx
SpawnCheckWorkers ==
    /\ pc = "spawn_check"
    /\ check' = [w \in 1..cpu_count |-> IdleCheck]
    /\ exec_files_tx' = 1
    /\ exec_files_rx' = 1 + cpu_count
    /\ missing_deps_tx' = drop(missing_deps_tx + cpu_count)
    /\ pc' = "spawn_discovery"
    /\ UNCHANGED <<env_vars, parser_vars, fn_vars, python_error, recv_log, broken_sd_service_links, progress,
                   package_chan, exec_files_chan, missing_deps_chan, python_chan,
                   package_tx, package_rx, next_package, next_link, disc,
                   python_thread, stdout, inc_log, sent_deps>>

\* lines 357-401: the inner scope spawns the discovery workers and drops its
\* exec_files_tx
SpawnDiscoveryWorkers ==
    /\ pc = "spawn_discovery"
    /\ disc' = [w \in 1..worker_count |-> IdleDiscovery]
    /\ package_tx' = 1
    /\ package_rx' = 1 + worker_count
    /\ exec_files_tx' = drop(exec_files_tx + worker_count)
    /\ pc' = "send_packages"
    /\ UNCHANGED <<env_vars, parser_vars, fn_vars, python_error, recv_log, broken_sd_service_links, progress,
                   package_chan, exec_files_chan, missing_deps_chan, python_chan,
                   missing_deps_tx, exec_files_rx, next_package, next_link, check,
                   python_thread, stdout, inc_log, sent_deps>>

\* lines 404-407
SendPackage ==
    /\ pc = "send_packages"
    /\ next_package <= Len(aur_packages)
    /\ package_rx > 0
    /\ package_chan' = Append(package_chan, aur_packages[next_package])
    /\ next_package' = next_package + 1
    /\ UNCHANGED <<env_vars, parser_vars, fn_vars, python_error, recv_log, broken_sd_service_links, progress,
                   exec_files_chan, missing_deps_chan, python_chan, package_tx,
                   exec_files_tx, missing_deps_tx, package_rx, exec_files_rx, pc,
                   next_link, disc, check, python_thread, stdout, inc_log, sent_deps>>

\* line 408: the inner closure returns and drops package_tx and package_rx
EndInnerScope ==
    /\ pc = "send_packages"
    /\ next_package > Len(aur_packages)
    /\ package_tx' = drop(package_tx)
    /\ package_rx' = drop(package_rx)
    /\ pc' = "join_discovery"
    /\ UNCHANGED <<env_vars, parser_vars, fn_vars, python_error, recv_log, broken_sd_service_links, progress,
                   package_chan, exec_files_chan, missing_deps_chan, python_chan,
                   exec_files_tx, missing_deps_tx, exec_files_rx, next_package,
                   next_link, disc, check, python_thread, stdout, inc_log, sent_deps>>

\* lines 408-409: the inner scope waits for the discovery workers
JoinDiscovery ==
    /\ pc = "join_discovery"
    /\ all_exited(disc)
    /\ pc' = "sd_links"
    /\ UNCHANGED <<env_vars, parser_vars, fn_vars, python_error, recv_log, broken_sd_service_links, progress,
                   package_chan, exec_files_chan, missing_deps_chan, python_chan,
                   package_tx, exec_files_tx, missing_deps_tx, package_rx,
                   exec_files_rx, next_package, next_link, disc, check,
                   python_thread, stdout, inc_log, sent_deps>>

\* lines 412-417: one turn of the loop; the unwrap of line 413 panics on Err,
\* which unwinds the outer closure (its exec_files_rx is dropped)
CheckServiceLink ==
    /\ pc = "sd_links"
    /\ next_link <= Len(enabled_sd_service_links)
    /\ LET link == enabled_sd_service_links[next_link]
           result == is_valid_link(link)
       IN  IF ~result.ok
             THEN /\ pc' = "unwinding"
                  /\ exec_files_rx' = drop(exec_files_rx)
                  /\ UNCHANGED <<broken_sd_service_links, progress, next_link>>
             ELSE /\ broken_sd_service_links' =
                        IF result.valid THEN broken_sd_service_links
                        ELSE Append(broken_sd_service_links, link)
                  /\ progress' = progress + 1
                  /\ next_link' = next_link + 1
                  /\ UNCHANGED <<pc, exec_files_rx>>
    /\ UNCHANGED <<env_vars, parser_vars, fn_vars, python_error, recv_log, package_chan, exec_files_chan,
                   missing_deps_chan, python_chan, package_tx, exec_files_tx,
                   missing_deps_tx, package_rx, next_package, disc, check,
                   python_thread, stdout, inc_log, sent_deps>>

\* line 418: the outer closure returns and drops exec_files_rx
EndOuterScope ==
    /\ pc = "sd_links"
    /\ next_link > Len(enabled_sd_service_links)
    /\ exec_files_rx' = drop(exec_files_rx)
    /\ pc' = "join_check"
    /\ UNCHANGED <<env_vars, parser_vars, fn_vars, python_error, recv_log, broken_sd_service_links, progress,
                   package_chan, exec_files_chan, missing_deps_chan, python_chan,
                   package_tx, exec_files_tx, missing_deps_tx, package_rx,
                   next_package, next_link, disc, check, python_thread, stdout,
                   inc_log, sent_deps>>

\* lines 418-421: the outer scope waits for the check workers
JoinCheck ==
    /\ pc = "join_check"
    /\ all_exited(check)
    /\ pc' = "drain"
    /\ UNCHANGED <<env_vars, parser_vars, fn_vars, python_error, recv_log, broken_sd_service_links, progress,
                   package_chan, exec_files_chan, missing_deps_chan, python_chan,
                   package_tx, exec_files_tx, missing_deps_tx, package_rx,
                   exec_files_rx, next_package, next_link, disc, check,
                   python_thread, stdout, inc_log, sent_deps>>

\* lines 418-419 after a panic in the closure: the scope still waits for the
\* check workers, then resumes the panic and main() ends without a report
ResumePanic ==
    /\ pc = "unwinding"
    /\ all_exited(check)
    /\ pc' = "aborted"
    /\ UNCHANGED <<env_vars, parser_vars, fn_vars, python_error, recv_log, broken_sd_service_links, progress,
                   package_chan, exec_files_chan, missing_deps_chan, python_chan,
                   package_tx, exec_files_tx, missing_deps_tx, package_rx,
                   exec_files_rx, next_package, next_link, disc, check,
                   python_thread, stdout, inc_log, sent_deps>>

(***************************************************************************)
(* The report (lines 423-453).                                             *)
(***************************************************************************)
DepLine(record) ==
    [kind |-> "missing_dep", file |-> record[2], package |-> record[1],
     what |-> record[3]]
PythonLine(couple) ==
    [kind |-> "python", file |-> "", package |-> couple[1], what |-> couple[2]]
ServiceLine(link) ==
    [kind |-> "service", file |-> link, package |-> "", what |-> <<>>]

DepLines(records) == [i \in 1..Len(records) |-> DepLine(records[i])]
PythonLines(couples) == [i \in 1..Len(couples) |-> PythonLine(couples[i])]
ServiceLines(links) == [i \in 1..Len(links) |-> ServiceLine(links[i])]

\* lines 423-431: one turn of the loop over missing_deps_rx.iter()
ReportMissingDep ==
    /\ pc = "drain"
    /\ missing_deps_chan # <<>>
    /\ stdout' = Append(stdout, DepLine(Head(missing_deps_chan)))
    /\ missing_deps_chan' = Tail(missing_deps_chan)
    /\ UNCHANGED <<env_vars, parser_vars, fn_vars, python_error, recv_log, broken_sd_service_links, progress,
                   package_chan, exec_files_chan, python_chan, package_tx,
                   exec_files_tx, missing_deps_tx, package_rx, exec_files_rx, pc,
                   next_package, next_link, disc, check, python_thread, inc_log,
                   sent_deps>>

\* line 423: the iterator ends when the channel is empty and has no sender
EndDrain ==
    /\ pc = "drain"
    /\ disconnected(missing_deps_chan, missing_deps_tx)
    /\ pc' = "python_recv"
    /\ UNCHANGED <<env_vars, parser_vars, fn_vars, python_error, recv_log, broken_sd_service_links, progress,
                   package_chan, exec_files_chan, missing_deps_chan, python_chan,
                   package_tx, exec_files_tx, missing_deps_tx, package_rx,
                   exec_files_rx, next_package, next_link, disc, check,
                   python_thread, stdout, inc_log, sent_deps>>

try_recv(chan) ==
    [ready |-> TRUE, value |-> IF chan # <<>> THEN Head(chan) ELSE <<>>]

\* line 433: recv() blocks until a message is there and takes the first one
recv(chan) ==
    [ready |-> chan # <<>>, value |-> IF chan # <<>> THEN Head(chan) ELSE <<>>]

\* lines 433-443: wait for the Vec of the Python thread and print its couples
ReportPython ==
    /\ pc = "python_recv"
    /\ recv(python_chan).ready
    /\ stdout' = stdout \o PythonLines(recv(python_chan).value)
    /\ python_chan' = IF python_chan # <<>> THEN Tail(python_chan) ELSE python_chan
    /\ pc' = "sd_report"
    /\ UNCHANGED <<env_vars, parser_vars, fn_vars, python_error, recv_log, broken_sd_service_links, progress,
                   package_chan, exec_files_chan, missing_deps_chan, package_tx,
                   exec_files_tx, missing_deps_tx, package_rx, exec_files_rx,
                   next_package, next_link, disc, check, python_thread, inc_log,
                   sent_deps>>

\* lines 445-454
ReportServiceLinks ==
    /\ pc = "sd_report"
    /\ stdout' = stdout \o ServiceLines(broken_sd_service_links)
    /\ pc' = "done"
    /\ UNCHANGED <<env_vars, parser_vars, fn_vars, python_error, recv_log, broken_sd_service_links, progress,
                   package_chan, exec_files_chan, missing_deps_chan, python_chan,
                   package_tx, exec_files_tx, missing_deps_tx, package_rx,
                   exec_files_rx, next_package, next_link, disc, check,
                   python_thread, inc_log, sent_deps>>

(***************************************************************************)
(* The Python thread (lines 269-291).  It is detached: it ends with the    *)
(* process when main() panics.                                             *)
(***************************************************************************)
\* what the thread does in each of its environments
PythonRuns == {python_to_send(env) : env \in PythonEnvs}

PythonCheck ==
    /\ python_thread = "running"
    /\ pc \notin {"done", "aborted"}
    /\ \E run \in PythonRuns :
          /\ python_chan' = Append(python_chan, run.to_send)
          /\ python_error' = run.error
    /\ python_thread' = "done"
    /\ UNCHANGED <<env_vars, parser_vars, fn_vars, recv_log, broken_sd_service_links, progress,
                   package_chan, exec_files_chan, missing_deps_chan, package_tx,
                   exec_files_tx, missing_deps_tx, package_rx, exec_files_rx, pc,
                   next_package, next_link, disc, check, stdout, inc_log, sent_deps>>

(***************************************************************************)
(* A discovery worker (lines 367-397).                                     *)
(***************************************************************************)
\* lines 368-370: receive a package and list its executable files
DiscRecv(w) ==
    /\ receives(disc, w)
    /\ package_chan # <<>>
    /\ LET package == Head(package_chan)
           result == get_package_executable_files(package)
       IN  disc' = [disc EXCEPT ![w] =
                      [pc |-> "listed", package |-> package, ok |-> result.ok,
                       exec_files |-> result.files, i |-> 1]]
    /\ package_chan' = Tail(package_chan)
    /\ recv_log' = [recv_log EXCEPT !.packages = @ (+) SetToBag({Head(package_chan)})]
    /\ UNCHANGED <<env_vars, parser_vars, fn_vars, python_error, broken_sd_service_links, progress,
                   exec_files_chan, missing_deps_chan, python_chan, package_tx,
                   exec_files_tx, missing_deps_tx, package_rx, exec_files_rx, pc,
                   next_package, next_link, check, python_thread, stdout, inc_log,
                   sent_deps>>

ends_on_listing_error == [IdleDiscovery EXCEPT !.pc = "exited"]

\* line 378: after a failed listing the worker goes on with its loop
continues_on_listing_error == IdleDiscovery

\* lines 372-379: the listing failed
DiscFailed(w) ==
    /\ disc[w].pc = "listed"
    /\ ~disc[w].ok
    /\ LogInc(disc[w].package, <<"discovery", "">>)
    /\ disc' = [disc EXCEPT ![w] = continues_on_listing_error]
    /\ UNCHANGED <<env_vars, parser_vars, fn_vars, python_error, recv_log, broken_sd_service_links, package_chan,
                   exec_files_chan, missing_deps_chan, python_chan, package_tx,
                   exec_files_tx, missing_deps_tx, package_rx, exec_files_rx, pc,
                   next_package, next_link, check, python_thread, stdout, sent_deps>>

\* lines 381-384: the package has no executable file
DiscEmpty(w) ==
    /\ disc[w].pc = "listed"
    /\ disc[w].ok
    /\ disc[w].exec_files = <<>>
    /\ LogInc(disc[w].package, <<"discovery", "">>)
    /\ disc' = [disc EXCEPT ![w] = IdleDiscovery]
    /\ UNCHANGED <<env_vars, parser_vars, fn_vars, python_error, recv_log, broken_sd_service_links, package_chan,
                   exec_files_chan, missing_deps_chan, python_chan, package_tx,
                   exec_files_tx, missing_deps_tx, package_rx, exec_files_rx, pc,
                   next_package, next_link, check, python_thread, stdout, sent_deps>>

\* lines 385-395: one turn of the send loop; after the last one, or when the
\* send fails, the worker receives again
DiscSend(w) ==
    /\ disc[w].pc = "listed"
    /\ disc[w].ok
    /\ disc[w].exec_files # <<>>
    /\ LET d == disc[w]
           to_send == exec_file_work(d.package, d.exec_files, d.i)
       IN  IF exec_files_rx = 0
             THEN /\ disc' = [disc EXCEPT ![w] = IdleDiscovery]
                  /\ UNCHANGED <<exec_files_chan, recv_log>>
             ELSE /\ exec_files_chan' = Append(exec_files_chan, to_send)
                  /\ recv_log' = [recv_log EXCEPT !.sent_work = @ (+) SetToBag({to_send})]
                  /\ disc' = [disc EXCEPT ![w] =
                                IF d.i = Len(d.exec_files) THEN IdleDiscovery
                                ELSE [d EXCEPT !.i = d.i + 1]]
    /\ UNCHANGED <<env_vars, parser_vars, fn_vars, python_error, broken_sd_service_links, progress,
                   package_chan, missing_deps_chan, python_chan, package_tx,
                   exec_files_tx, missing_deps_tx, package_rx, exec_files_rx, pc,
                   next_package, next_link, check, python_thread, stdout, inc_log,
                   sent_deps>>

\* line 368: recv fails, the worker ends and drops its handles
DiscExit(w) ==
    /\ receives(disc, w)
    /\ disconnected(package_chan, package_tx)
    /\ disc' = [disc EXCEPT ![w].pc = "exited"]
    /\ exec_files_tx' = drop(exec_files_tx)
    /\ package_rx' = drop(package_rx)
    /\ UNCHANGED <<env_vars, parser_vars, fn_vars, python_error, recv_log, broken_sd_service_links, progress,
                   package_chan, exec_files_chan, missing_deps_chan, python_chan,
                   package_tx, missing_deps_tx, exec_files_rx, pc, next_package,
                   next_link, check, python_thread, stdout, inc_log, sent_deps>>

(***************************************************************************)
(* A check worker (lines 322-351).                                         *)
(***************************************************************************)
\* lines 323-327, 340-345: receive a work unit and run ldd on its file; an Err
\* is printed and leaves nothing to send
CheckRecv(w) ==
    /\ receives(check, w)
    /\ exec_files_chan # <<>>
    /\ \E output \in LddOutcomes(Head(exec_files_chan).exec_filepath) :
          LET work == Head(exec_files_chan)
              result == missing_dependencies_of(output)
          IN  check' = [check EXCEPT ![w] =
                          [pc |-> "checked", work |-> work,
                           missing_deps |-> IF result.ok THEN result.deps ELSE <<>>]]
    /\ exec_files_chan' = Tail(exec_files_chan)
    /\ recv_log' = [recv_log EXCEPT !.work = @ (+) SetToBag({Head(exec_files_chan)})]
    /\ UNCHANGED <<env_vars, parser_vars, fn_vars, python_error, broken_sd_service_links, progress,
                   package_chan, missing_deps_chan, python_chan, package_tx,
                   exec_files_tx, missing_deps_tx, package_rx, exec_files_rx, pc,
                   next_package, next_link, disc, python_thread, stdout, inc_log,
                   sent_deps>>

\* lines 328-338: one turn of the send loop (missing_deps_rx lives as long as
\* main(), so the send does not fail)
CheckSend(w) ==
    /\ check[w].pc = "checked"
    /\ check[w].missing_deps # <<>>
    /\ LET to_send == missing_dep_record(check[w].work, Head(check[w].missing_deps))
       IN  /\ missing_deps_chan' = Append(missing_deps_chan, to_send)
           /\ sent_deps' = Append(sent_deps, to_send)
    /\ check' = [check EXCEPT ![w].missing_deps = Tail(@)]
    /\ UNCHANGED <<env_vars, parser_vars, fn_vars, python_error, recv_log, broken_sd_service_links, progress,
                   package_chan, exec_files_chan, python_chan, package_tx,
                   exec_files_tx, missing_deps_tx, package_rx, exec_files_rx, pc,
                   next_package, next_link, disc, python_thread, stdout, inc_log>>

\* lines 347-350: progress for the last file of a package, then receive again
CheckDone(w) ==
    /\ check[w].pc = "checked"
    /\ check[w].missing_deps = <<>>
    /\ IF reports_progress(check[w].work)
         THEN LogInc(check[w].work.package, <<"check", check[w].work.exec_filepath>>)
         ELSE UNCHANGED <<progress, inc_log>>
    /\ check' = [check EXCEPT ![w] = IdleCheck]
    /\ UNCHANGED <<env_vars, parser_vars, fn_vars, python_error, recv_log, broken_sd_service_links, package_chan,
                   exec_files_chan, missing_deps_chan, python_chan, package_tx,
                   exec_files_tx, missing_deps_tx, package_rx, exec_files_rx, pc,
                   next_package, next_link, disc, python_thread, stdout, sent_deps>>

\* line 323: recv fails, the worker ends and drops its handles
CheckExit(w) ==
    /\ receives(check, w)
    /\ disconnected(exec_files_chan, exec_files_tx)
    /\ check' = [check EXCEPT ![w].pc = "exited"]
    /\ missing_deps_tx' = drop(missing_deps_tx)
    /\ exec_files_rx' = drop(exec_files_rx)
    /\ UNCHANGED <<env_vars, parser_vars, fn_vars, python_error, recv_log, broken_sd_service_links, progress,
                   package_chan, exec_files_chan, missing_deps_chan, python_chan,
                   package_tx, exec_files_tx, package_rx, pc, next_package,
                   next_link, disc, python_thread, stdout, inc_log, sent_deps>>

DiscoveryWorker(w) ==
    \/ DiscRecv(w)
    \/ DiscFailed(w)
    \/ DiscEmpty(w)
    \/ DiscSend(w)
    \/ DiscExit(w)

CheckWorker(w) ==
    \/ CheckRecv(w)
    \/ CheckSend(w)
    \/ CheckDone(w)
    \/ CheckExit(w)

MainThread ==
    \/ SpawnCheckWorkers
    \/ SpawnDiscoveryWorkers
    \/ SendPackage
    \/ EndInnerScope
    \/ JoinDiscovery
    \/ CheckServiceLink
    \/ EndOuterScope
    \/ JoinCheck
    \/ ResumePanic
    \/ ReportMissingDep
    \/ EndDrain
    \/ ReportPython
    \/ ReportServiceLinks

Next ==
    \/ MainThread
    \/ PythonCheck
    \/ \E w \in DOMAIN disc : DiscoveryWorker(w)
    \/ \E w \in DOMAIN check : CheckWorker(w)

Spec == Init /\ [][Next]_vars

(***************************************************************************)
(* get_missing_dependencies on its own (lines 192-213): the loop of lines  *)
(* 201-209 run on every ldd output made of a few short lines.              *)
(***************************************************************************)
LinePrefixes == SeqsUpTo({"a", SP, TAB}, MaxPrefix)

LineTails ==
    {<<"a", SP>> \o NOT_FOUND,        \* a => not found
     NOT_FOUND,                       \* => not found
     <<"a", SP>> \o NOT_FOUND \o <<SP>>,  \* a => not found, then a space
     <<"a", SP>> \o RESOLVED}         \* a => /l (0)

LddLines == {prefix \o tail : prefix \in LinePrefixes, tail \in LineTails}

InitParser ==
    /\ ldd_output \in [success : BOOLEAN, lines : SeqsUpTo(LddLines, MaxLines)]
    /\ ldd_line = 1
    /\ missing_deps = <<>>
    /\ aur_packages = <<>>
    /\ cpu_count = 1
    /\ enabled_sd_service_links = <<>>
    /\ broken_sd_service_links = <<>>
    /\ progress = 0
    /\ package_chan = <<>>
    /\ exec_files_chan = <<>>
    /\ missing_deps_chan = <<>>
    /\ python_chan = <<>>
    /\ package_tx = 0
    /\ exec_files_tx = 0
    /\ missing_deps_tx = 1
    /\ package_rx = 0
    /\ exec_files_rx = 0
    /\ pc = "spawn_check"
    /\ next_package = 1
    /\ next_link = 1
    /\ disc = <<>>
    /\ check = <<>>
    /\ python_thread = "running"
    /\ stdout = <<>>
    /\ inc_log = [p \in Packages |-> <<>>]
    /\ sent_deps = <<>>
    /\ python_error = ""
    /\ recv_log = NothingReceived
    /\ call_arg = <<>>
    /\ call_result = NoCall

main_vars ==
    <<env_vars, broken_sd_service_links, progress, package_chan, exec_files_chan,
      missing_deps_chan, python_chan, package_tx, exec_files_tx, missing_deps_tx,
      package_rx, exec_files_rx, pc, next_package, next_link, disc, check,
      python_thread, stdout, inc_log, sent_deps, python_error, recv_log>>

\* lines 201-209: one line of the output goes through the filter and the map
ParseLine ==
    /\ ldd_output.success
    /\ ldd_line <= Len(ldd_output.lines)
    /\ LET l == ldd_output.lines[ldd_line] IN
       missing_deps' =
          IF is_missing_line(l) THEN Append(missing_deps, missing_dep_name(l))
          ELSE missing_deps
    /\ ldd_line' = ldd_line + 1
    /\ UNCHANGED <<main_vars, fn_vars, ldd_output>>

\* line 200: the output of a failed ldd is not read
ParseSkipped ==
    /\ ~ldd_output.success
    /\ ldd_line <= Len(ldd_output.lines)
    /\ ldd_line' = Len(ldd_output.lines) + 1
    /\ UNCHANGED <<main_vars, fn_vars, ldd_output, missing_deps>>

NextParser ==
    \/ ParseLine
    \/ ParseSkipped

SpecParser == InitParser /\ [][NextParser]_vars

(***************************************************************************)
(* The functions that read the filesystem, each on its own: is_valid_link  *)
(* (lines 238-261) on a link and get_package_executable_files (lines       *)
(* 162-190) on a package that owns one path, in every filesystem of a few  *)
(* entries.  The entry examined is the first one.                          *)
(***************************************************************************)
\* main() has not started and the parser is not run
IdleMain ==
    /\ aur_packages = <<>>
    /\ cpu_count = 1
    /\ enabled_sd_service_links = <<>>
    /\ broken_sd_service_links = <<>>
    /\ progress = 0
    /\ package_chan = <<>>
    /\ exec_files_chan = <<>>
    /\ missing_deps_chan = <<>>
    /\ python_chan = <<>>
    /\ package_tx = 0
    /\ exec_files_tx = 0
    /\ missing_deps_tx = 1
    /\ package_rx = 0
    /\ exec_files_rx = 0
    /\ pc = "spawn_check"
    /\ next_package = 1
    /\ next_link = 1
    /\ disc = <<>>
    /\ check = <<>>
    /\ python_thread = "running"
    /\ stdout = <<>>
    /\ inc_log = [p \in Packages |-> <<>>]
    /\ sent_deps = <<>>
    /\ python_error = ""
    /\ recv_log = NothingReceived
    /\ ldd_output = [success |-> TRUE, lines |-> <<>>]
    /\ ldd_line = 0
    /\ missing_deps = <<>>

Nodes == {NodeNames[i] : i \in 1..MaxNodes}
GONE == "/etc/wants/gone"

\* what an entry may be: a regular file without or with an execute bit, a
\* directory, or a symlink to an entry or to a path that does not exist
EntryChoices == {"file", "exec", "dir"} \cup Nodes \cup {GONE}

MakeEntry(choice, p) ==
    CASE choice = "file" -> RegularFile(p, FALSE)
      [] choice = "exec" -> RegularFile(p, TRUE)
      [] choice = "dir" -> Dir(p)
      [] OTHER -> Symlink(choice)

FileSystems == {[p \in Nodes |-> MakeEntry(c[p], p)] : c \in [Nodes -> EntryChoices]}

\* the relative path of an entry of the directory of the links
relative_name(p) == RelativeNames[CHOOSE i \in 1..Len(NodeNames) : NodeNames[i] = p]

\* the same filesystem with the text of the first link a relative path
WithRelativeLink(fs) ==
    [fs EXCEPT ![NodeNames[1]] = RelativeSymlink(@.target, relative_name(@.target))]

InitFs ==
    /\ call_arg \in
          {[fs |-> fs, cwd |-> ROOT, path |-> NodeNames[1]] : fs \in FileSystems}
          \cup {[fs |-> WithRelativeLink(fs), cwd |-> cwd, path |-> NodeNames[1]] :
                   fs \in {f \in FileSystems : f[NodeNames[1]].target \in Nodes \ {NodeNames[1]}
                                               /\ f[NodeNames[1]].kind = "symlink"},
                   cwd \in {ROOT, LINK_DIR}}
    /\ call_result = NoCall
    /\ IdleMain

\* line 413, on a link get_sd_enabled_service_links returns (line 227: a
\* symlink)
CallIsValidLink ==
    /\ call_result = NoCall
    /\ call_arg.fs[call_arg.path].kind = "symlink"
    /\ LET result == is_valid_link_in(call_arg.fs, call_arg.cwd, call_arg.path) IN
       call_result' = [fn |-> "is_valid_link", ok |-> result.ok,
                       value |-> <<result.valid>>]
    /\ UNCHANGED <<main_vars, parser_vars, call_arg>>

\* line 370, on a package of which pacman -Ql lists the one path
CallGetPackageExecutableFiles ==
    /\ call_result = NoCall
    /\ LET result == executable_files_in(call_arg.fs, call_arg.cwd,
                                         << <<"pkg", call_arg.path>> >>)
       IN  call_result' = [fn |-> "get_package_executable_files", ok |-> result.ok,
                           value |-> result.files]
    /\ UNCHANGED <<main_vars, parser_vars, call_arg>>

NextFs ==
    \/ CallIsValidLink
    \/ CallGetPackageExecutableFiles

SpecFs == InitFs /\ [][NextFs]_vars

(***************************************************************************)
(* get_python_version on its own (lines 56-106), on the output of pacman   *)
(* -Qi for every version made of a few parts and separators.               *)
(***************************************************************************)
\* what stands between the separators of a version: nothing, a number, a
\* letter, a number above the largest u8, a number with a sign
PartTexts == {<<>>, <<"7">>, <<"x">>, <<"2", "5", "6">>, <<"+", "7">>}
Separators == {".", "-"}

\* parts[1] seps[1] parts[2] ... parts[n]
RECURSIVE join(_, _)
join(parts, seps) ==
    IF Len(parts) = 1 THEN parts[1]
    ELSE parts[1] \o <<seps[1]>> \o join(Tail(parts), Tail(seps))

V_1_2_3_4 == <<"1", ".", "2", ".", "3", "-", "4">>
V_1_2_3 == <<"1", ".", "2", ".", "3">>
V_1_2 == <<"1", ".", "2">>
V_255 == <<"2", "5", "5", ".", "0", "0", "7", ".", "0", "-", "2", "5", "5">>

VersionStrings ==
    {V_1_2_3_4, V_1_2_3, V_1_2, V_255}
    \cup UNION {{join(parts, seps) : parts \in [1..n -> PartTexts],
                                     seps \in [1..(n - 1) -> Separators]} :
                n \in 1..MaxVersionParts}

InitVersion ==
    /\ call_arg \in VersionStrings
    /\ call_result = NoCall
    /\ IdleMain

\* line 271
CallGetPythonVersion ==
    /\ call_result = NoCall
    /\ LET version == get_python_version([success |-> TRUE, lines |-> QiLines(call_arg)])
       IN  call_result' =
              [fn |-> "get_python_version", ok |-> version.ok,
               value |-> <<version.major, version.minor, version.release,
                           version.package>>]
    /\ UNCHANGED <<main_vars, parser_vars, call_arg>>

NextVersion == CallGetPythonVersion

SpecVersion == InitVersion /\ [][NextVersion]_vars

(***************************************************************************)
(* The start of main() (lines 293-297): the process is started with        *)
(* command-line arguments and pacman -Qqm prints the foreign packages, or  *)
(* fails.                                                                  *)
(***************************************************************************)
\* lines 148-160, on the output of pacman -Qqm
get_aur_packages(output) ==
    IF ~output.success THEN [ok |-> FALSE, packages |-> <<>>]
    ELSE [ok |-> TRUE, packages |-> output.lines]

\* the outputs of pacman -Qqm
PacmanQqm ==
    {[success |-> TRUE, lines |-> lines] : lines \in Inventories(MaxPackages)}
    \cup {[success |-> FALSE, lines |-> <<>>]}

InitStart ==
    /\ call_arg \in [args : SeqsUpTo(Packages, MaxArgs), output : PacmanQqm]
    /\ call_result = NoCall
    /\ IdleMain

\* line 297: main() never reads the arguments of the process; the unwrap
\* panics when pacman -Qqm fails
GetPackageNames ==
    /\ call_result = NoCall
    /\ LET result == get_aur_packages(call_arg.output) IN
       /\ call_result' = [fn |-> "get_aur_packages", ok |-> result.ok,
                          value |-> result.packages]
       /\ aur_packages' = result.packages
       /\ pc' = IF result.ok THEN pc ELSE "aborted"
    /\ UNCHANGED <<parser_vars, call_arg, cpu_count, enabled_sd_service_links,
                   broken_sd_service_links, progress, package_chan,
                   exec_files_chan, missing_deps_chan, python_chan, package_tx,
                   exec_files_tx, missing_deps_tx, package_rx, exec_files_rx,
                   next_package, next_link, disc, check, python_thread, stdout,
                   inc_log, sent_deps, python_error, recv_log>>

NextStart == GetPackageNames

SpecStart == InitStart /\ [][NextStart]_vars

(***************************************************************************)
(* Scheduling: the operating system runs every thread that can take a step.*)
(***************************************************************************)
Fairness ==
    /\ WF_vars(MainThread)
    /\ WF_vars(PythonCheck)
    /\ \A w \in 1..MaxCpu : WF_vars(w \in DOMAIN disc /\ DiscoveryWorker(w))
    /\ \A w \in 1..MaxCpu : WF_vars(w \in DOMAIN check /\ CheckWorker(w))

FairSpec == Spec /\ Fairness

(***************************************************************************)
(* Vocabulary of the properties.                                           *)
(***************************************************************************)
\* main() is past line 421: the Reporter is at work or has finished
ReportPcs == {"drain", "python_recv", "sd_report", "done"}
\* main() is past line 431: the drain of missing_deps_rx has ended
DrainedPcs == {"python_recv", "sd_report", "done"}
\* the outer scope has returned or resumed a panic: every worker was joined
ScopeEndedPcs == ReportPcs \cup {"aborted"}

Listing(p) == get_package_executable_files(p)
DiscoveredFiles(p) == IF Listing(p).ok THEN Listing(p).files ELSE <<>>

\* who reports progress for package p: the discovery worker when the listing
\* failed or holds no executable, else the check of the last executable
ProgressStage(p) ==
    LET files == DiscoveredFiles(p)
    IN  IF files = <<>> THEN <<"discovery", "">> ELSE <<"check", files[Len(files)]>>

\* the records (p, f, d), one for each time ldd reports d missing for the
\* executable f of package p
RecordsOfFile(p, f) ==
    LET deps == get_missing_dependencies(f).deps
    IN  [i \in 1..Len(deps) |-> <<p, f, deps[i]>>]
RecordsOfPackage(p) ==
    LET files == DiscoveredFiles(p)
    IN  Flatten([i \in 1..Len(files) |-> RecordsOfFile(p, files[i])])
RecordsOf(packages) ==
    Flatten([i \in 1..Len(packages) |-> RecordsOfPackage(packages[i])])

IsDepLine(line) == line.kind = "missing_dep"
PrintedDepLines == SeqToBag(SelectSeq(stdout, IsDepLine))
ExpectedDepLines(packages) == SeqToBag(DepLines(RecordsOf(packages)))

(***************************************************************************)
(* Properties.                                                             *)
(***************************************************************************)
\* C1: progress.inc is called at most once on behalf of a package, only for a
\* package of the inventory and only by the stage that has to do it (the
\* discovery worker when the listing failed or holds no executable, else the
\* check worker that processed the last executable); once the worker scopes
\* have ended it has been called exactly once for every package.
C1_ProgressOncePerPackage ==
    \A p \in Packages :
        /\ Len(inc_log[p]) <= 1
        /\ inc_log[p] # <<>> =>
              p \in Range(aur_packages) /\ inc_log[p] = <<ProgressStage(p)>>
        /\ (pc \in ScopeEndedPcs /\ p \in Range(aur_packages)) => Len(inc_log[p]) = 1

\* a finished run with two check workers, a package without executables and
\* a package with two executables
C1_Witness ==
    /\ pc = "done"
    /\ cpu_count = 2
    /\ aur_packages = <<"pkgEmpty", "pkgTwo">>
    /\ inc_log["pkgEmpty"] = << <<"discovery", "">> >>
    /\ inc_log["pkgTwo"] = << <<"check", "/usr/bin/b">> >>

\* C2: the missing-dependency lines printed are never more than the records
\* (package, executable of the package, dependency ldd reports missing for
\* it), each counted as often as ldd reports it, and once main() has ended,
\* normally or not, they are exactly those records: none is lost.
C2_ReportMatchesRecords ==
    /\ PrintedDepLines \sqsubseteq ExpectedDepLines(aur_packages)
    /\ pc \in {"done", "aborted"} => PrintedDepLines = ExpectedDepLines(aur_packages)

\* What holds of the report for C2: nothing is printed twice or under a wrong
\* package, and a run whose Reporter drains the channel prints every record;
\* pkgOne alone, whose one executable misses libfoo.so.1, gives one line.
DepLinesMatchRecordsWhenDrained ==
    /\ PrintedDepLines \sqsubseteq ExpectedDepLines(aur_packages)
    /\ pc \in DrainedPcs => PrintedDepLines = ExpectedDepLines(aur_packages)
    /\ (pc \in DrainedPcs /\ aur_packages = <<"pkgOne">>) =>
          SelectSeq(stdout, IsDepLine) =
             << [kind |-> "missing_dep", file |-> "/usr/bin/a",
                 package |-> "pkgOne", what |-> libfoo] >>

\* C3: every run ends with the package sender dropped, all the discovery and
\* check workers out of their loops and the Reporter's drain of the
\* missing-dependency channel over.
C3_PipelineTerminates ==
    <>(/\ pc \in DrainedPcs
       /\ package_tx = 0
       /\ all_exited(disc)
       /\ all_exited(check))

\* What holds of termination for C3: the worker scopes always end, with every
\* worker out of its loop and every channel of the pipeline closed and empty;
\* a drain that starts ends.
WorkersAlwaysExit ==
    /\ <>(/\ pc \in ScopeEndedPcs
          /\ all_exited(disc) /\ all_exited(check)
          /\ package_tx = 0 /\ exec_files_tx = 0 /\ missing_deps_tx = 0
          /\ package_chan = <<>> /\ exec_files_chan = <<>>)
    /\ (pc = "drain") ~> (pc \in DrainedPcs)

\* C4: a step that brings the Reporter to its first receive, or any later
\* step of the report, finds every discovery and check worker ended and no
\* sender of the three channels alive, and sends no record.
C4_ReporterStartsAfterWorkers ==
    [][pc' \in ReportPcs =>
          /\ all_exited(disc') /\ all_exited(check')
          /\ DOMAIN check' = 1..cpu_count /\ DOMAIN disc' = 1..worker_count
          /\ package_tx' = 0 /\ exec_files_tx' = 0 /\ missing_deps_tx' = 0
          /\ sent_deps' = sent_deps]_vars

\* the Reporter about to receive its first record, after two workers per stage
\* have sent three
C4_Witness ==
    /\ pc = "drain"
    /\ stdout = <<>>
    /\ cpu_count = 2
    /\ Len(aur_packages) = 2
    /\ Len(missing_deps_chan) = 3

\* the packages of the inventory whose file listing fails, and the others
ListingOk(p) == Listing(p).ok
FailedPackages == {p \in Range(aur_packages) : ~ListingOk(p)}
ListedPackages == SelectSeq(aur_packages, ListingOk)

\* C5: a package whose file listing fails gives no executable-file work item;
\* a discovery worker leaves its loop only on a closed and empty channel,
\* never because of the failure; main() is aborted by nothing but a service
\* link; and the other packages are discovered, checked (records sent,
\* progress reported) and, when the report is printed, reported exactly as
\* the inventory without the failing packages would be.
C5_ListingFailureIsLocal ==
    /\ \A i \in 1..Len(exec_files_chan) :
          exec_files_chan[i].package \notin FailedPackages
    /\ \A w \in DOMAIN check :
          check[w].pc = "checked" => check[w].work.package \notin FailedPackages
    /\ \A w \in DOMAIN disc :
          disc[w].pc = "exited" => disconnected(package_chan, package_tx)
    /\ pc \in {"unwinding", "aborted"} =>
          /\ next_link <= Len(enabled_sd_service_links)
          /\ ~is_valid_link(enabled_sd_service_links[next_link]).ok
    /\ pc \in ScopeEndedPcs =>
          /\ SeqToBag(sent_deps) = SeqToBag(RecordsOf(ListedPackages))
          /\ \A p \in Range(ListedPackages) : inc_log[p] = <<ProgressStage(p)>>
    /\ pc \in DrainedPcs => PrintedDepLines = ExpectedDepLines(ListedPackages)

\* a finished run in which the only discovery worker got the failing package
\* first and then discovered pkgOne, whose record is printed
C5_Witness ==
    /\ pc = "done"
    /\ cpu_count = 1
    /\ aur_packages = <<"pkgFail", "pkgOne">>
    /\ inc_log["pkgFail"] = << <<"discovery", "">> >>
    /\ Len(SelectSeq(stdout, IsDepLine)) = 1

\* C6: a service link whose check fails does not abort the run: main() never
\* unwinds out of the loop of the service links, and when the worker scopes
\* have ended every service link has been checked.
C6_LinkErrorDoesNotAbort ==
    /\ pc \notin {"unwinding", "aborted"}
    /\ pc \in ScopeEndedPcs => next_link = Len(enabled_sd_service_links) + 1

\* C7: when the first line is printed, the Python thread has sent its result
\* and the loop of the service links is over.
C7_AuxiliaryChecksBeforeReport ==
    stdout # <<>> =>
       /\ python_thread = "done"
       /\ next_link = Len(enabled_sd_service_links) + 1

\* C7 as amended: the loop of the service links is over before the first line
\* is printed; the Python thread has sent its result before any line other
\* than a missing-dependency line is printed, and before main() goes past
\* line 433.
C7_AuxiliaryChecksBeforeTheirLines ==
    /\ stdout # <<>> =>
          pc \in ReportPcs /\ next_link = Len(enabled_sd_service_links) + 1
    /\ (\/ pc \in {"sd_report", "done"}
        \/ \E i \in 1..Len(stdout) : ~IsDepLine(stdout[i])) =>
          python_thread = "done"

\* a finished report with a line of each kind
C7_Witness ==
    /\ pc = "done"
    /\ \E i, j, k \in 1..Len(stdout) :
          /\ stdout[i].kind = "missing_dep"
          /\ stdout[j].kind = "python"
          /\ stdout[k].kind = "service"

\* ldd exits non-zero for this file
LddFails(f) == ~LddRun(f).success

\* C8: a file for which ldd exits non-zero gives no record and no Err; its
\* worker has nothing to send, reports progress when the file is the last of
\* its package, and leaves its loop only on a closed and empty channel.
C8_FailedLddGivesNothing ==
    /\ \A i \in 1..Len(sent_deps) : ~LddFails(sent_deps[i][2])
    /\ \A w \in DOMAIN check :
          /\ (check[w].pc = "checked" /\ LddFails(check[w].work.exec_filepath)) =>
                /\ check[w].missing_deps = <<>>
                /\ get_missing_dependencies(check[w].work.exec_filepath).ok
          /\ check[w].pc = "exited" => disconnected(exec_files_chan, exec_files_tx)
    /\ pc \in ScopeEndedPcs =>
          \A p \in Range(aur_packages) :
             LET files == DiscoveredFiles(p) IN
             (files # <<>> /\ LddFails(files[Len(files)])) =>
                inc_log[p] = << <<"check", files[Len(files)]>> >>

\* the scopes have ended after the check of pkgTwo, whose last file /usr/bin/b
\* makes ldd fail: progress was reported for it and only the two records of
\* its first file were sent
C8_Witness ==
    /\ pc \in ScopeEndedPcs
    /\ aur_packages = <<"pkgTwo">>
    /\ inc_log["pkgTwo"] = << <<"check", "/usr/bin/b">> >>
    /\ Len(sent_deps) = 2

\* the path prefixes the specification wants left out of the dependency
\* check are /opt/ and /usr/share/; these paths of the filesystem have one
BlacklistedPaths == {"/opt/x/c", "/usr/share/d/", "/usr/share/doc/r"}

\* C10: no executable-file work item and no record exists for a path with a
\* blacklisted prefix.
C10_BlacklistedPathsNotChecked ==
    /\ \A i \in 1..Len(exec_files_chan) :
          exec_files_chan[i].exec_filepath \notin BlacklistedPaths
    /\ \A w \in DOMAIN check : check[w].work.exec_filepath \notin BlacklistedPaths
    /\ \A i \in 1..Len(sent_deps) : sent_deps[i][2] \notin BlacklistedPaths
    /\ \A i \in 1..Len(stdout) : stdout[i].file \notin BlacklistedPaths

\* get_missing_dependencies has returned
Returned == ldd_line > Len(ldd_output.lines)

\* the line is some text followed by "=> not found" and nothing else
EndsNotFound(l) == \E k \in 0..Len(l) : l = SubSeq(l, 1, k) \o NOT_FOUND

\* the lines of the output that end so, and the rank of line i among them
MissingLines == {i \in 1..Len(ldd_output.lines) : EndsNotFound(ldd_output.lines[i])}
RankOfLine(i) == Cardinality({h \in MissingLines : h <= i})

\* name is the text of l before its first space (all of l when it has none),
\* less its leading white space
IsFirstTokenTrimmed(l, name) ==
    \E n \in 0..Len(l) :
        /\ \A k \in 1..n : l[k] # SP
        /\ n = Len(l) \/ l[n + 1] = SP
        /\ \E m \in 0..n :
              /\ \A k \in 1..m : l[k] \in WhiteSpace
              /\ name = SubSeq(l, m + 1, n)
              /\ name = <<>> \/ name[1] \notin WhiteSpace

\* the output of the test of lines 479-537, shortened: the vdso line, two
\* missing libraries, a resolved one and the loader
TestOutput ==
    <<VdsoLine, MissingLine(libfoo), MissingLine(libbar), ResolvedLine(libc),
      <<TAB, "/", "l", "d", SP>> \o RESOLVED>>

\* C9: for an ldd that exited with success get_missing_dependencies returns
\* one name for each line ending in "=> not found", in the order of the
\* lines, and nothing for the other lines; each name is the text of its line
\* before the first space without its leading white space.  The output of
\* the test gives the names of its missing libraries and no other.
C9_ParserReturnsMissingNames ==
    /\ (Returned /\ ldd_output.success) =>
          /\ Len(missing_deps) = Cardinality(MissingLines)
          /\ \A i \in MissingLines :
                IsFirstTokenTrimmed(ldd_output.lines[i], missing_deps[RankOfLine(i)])
    /\ missing_deps_of_output(TRUE, TestOutput) = <<libfoo, libbar>>

\* an output of a resolved line and an indented missing line has been parsed
C9_Witness ==
    /\ Returned
    /\ ldd_output.success
    /\ ldd_output.lines = << <<"a", SP>> \o RESOLVED, <<TAB, "a", SP>> \o NOT_FOUND >>
    /\ missing_deps = << <<"a">> >>

(***************************************************************************)
(* The Python thread and the version it parses.                            *)
(***************************************************************************)
\* the non-dependency lines of the report, in the order they were printed
OtherLines == SelectSeq(stdout, LAMBDA line : ~IsDepLine(line))

\* C11: when the Python thread failed (it printed one of its two errors), what
\* it sent is the empty Vec and no Python line is printed; main() is
\* aborted only by an Err of is_valid_link, its recv() of line 433 finds the
\* message, and a finished report holds every missing-dependency record and
\* every broken service link.
C11_PythonFailureGivesEmptyResult ==
    python_error # "" =>
       /\ python_thread = "done"
       /\ \A i \in 1..Len(python_chan) : python_chan[i] = <<>>
       /\ \A i \in 1..Len(stdout) : stdout[i].kind # "python"
       /\ pc \in {"unwinding", "aborted"} =>
             ~is_valid_link(enabled_sd_service_links[next_link]).ok
       /\ pc = "python_recv" => recv(python_chan).ready
       /\ pc \in {"sd_report", "done"} => python_chan = <<>>
       /\ pc = "done" =>
             /\ PrintedDepLines = ExpectedDepLines(aur_packages)
             /\ OtherLines = ServiceLines(broken_sd_service_links)

\* a finished report of a run whose Python thread failed, with lines of the
\* two other kinds
C11_Witness ==
    /\ pc = "done"
    /\ python_error = FAILED_LIST
    /\ \E i, k \in 1..Len(stdout) :
          stdout[i].kind = "missing_dep" /\ stdout[k].kind = "service"

(***************************************************************************)
(* is_valid_link and get_package_executable_files on their own.            *)
(***************************************************************************)
\* what the chain of links that starts at path ends at, as the kernel walks
\* it: the kind of the entry, "missing" or "loop"
RECURSIVE ChainEnd(_, _, _)
ChainEnd(fs, path, seen) ==
    IF path \notin DOMAIN fs THEN "missing"
    ELSE IF fs[path].kind # "symlink" THEN fs[path].kind
    ELSE IF path \in seen THEN "loop"
    ELSE ChainEnd(fs, fs[path].target, seen \cup {path})

\* the number of links of the chain
RECURSIVE ChainDepth(_, _, _)
ChainDepth(fs, path, seen) ==
    IF path \notin DOMAIN fs \/ fs[path].kind # "symlink" \/ path \in seen THEN 0
    ELSE 1 + ChainDepth(fs, fs[path].target, seen \cup {path})

EndOfLink == ChainEnd(call_arg.fs, call_arg.path, {})
DepthOfLink == ChainDepth(call_arg.fs, call_arg.path, {})
ReturnedValid(valid) == call_result.ok /\ call_result.value = <<valid>>

\* what C12 says of a link: valid when its chain ends at a regular file, not
\* valid when its target does not exist, an error when its chain ends at a
\* directory
LinkChainIsFollowed ==
    /\ EndOfLink = "file" => ReturnedValid(TRUE)
    /\ call_arg.fs[call_arg.path].target \notin DOMAIN call_arg.fs =>
          ReturnedValid(FALSE)
    /\ EndOfLink = "dir" => ~call_result.ok

\* C12: in every filesystem, is_valid_link returns Ok(true) for a link whose
\* chain ends at a regular file, Ok(false) for a link whose target does not
\* exist and an error for a link whose chain ends at a directory.
C12_LinkChainIsFollowed ==
    call_result.fn = "is_valid_link" => LinkChainIsFollowed

\* What holds for C12: the three cases are as the claim says when the text of
\* the link is an absolute path, or the process runs in the directory of the
\* link; a chain that is dangling further on or that loops is not valid.
LinkChainIsFollowedFromItsDirectory ==
    (/\ call_result.fn = "is_valid_link"
     /\ \/ call_arg.fs[call_arg.path].text = call_arg.fs[call_arg.path].target
        \/ call_arg.cwd = LINK_DIR) =>
       /\ LinkChainIsFollowed
       /\ EndOfLink \in {"missing", "loop"} => ReturnedValid(FALSE)

\* a chain of three absolute links that ends at a regular file was found valid
DeepChainFoundValid ==
    /\ call_result.fn = "is_valid_link"
    /\ call_arg.fs[call_arg.path].text = call_arg.fs[call_arg.path].target
    /\ DepthOfLink = 3
    /\ EndOfLink = "file"
    /\ ReturnedValid(TRUE)

\* a number a u8 holds, written in decimal digits, with or without a plus sign
IsU8Text(part) ==
    LET digits == IF part # <<>> /\ Head(part) = "+" THEN Tail(part) ELSE part IN
    /\ digits # <<>>
    /\ \A i \in 1..Len(digits) : digits[i] \in Digits
    /\ decimal_value(digits) <= U8_MAX

U8Of(part) ==
    decimal_value(IF part # <<>> /\ Head(part) = "+" THEN Tail(part) ELSE part)

\* the part of s between the positions a and b, when it is a u8
U8Between(s, a, b) == IsU8Text(SubSeq(s, a + 1, b - 1))

\* the ways to read s as major "." minor "." release "-" package, each a u8,
\* followed by nothing or by a further separator and anything: the values
\* of the four parts
VersionsIn(s) ==
    LET At(c) == {i \in 1..Len(s) : s[i] = c}
        Ends == {i \in 1..Len(s) : i = Len(s) \/ s[i + 1] \in Separators}
    IN  UNION {UNION {UNION {
          {<<U8Of(SubSeq(s, 1, p1 - 1)), U8Of(SubSeq(s, p1 + 1, p2 - 1)),
             U8Of(SubSeq(s, p2 + 1, p3 - 1)), U8Of(SubSeq(s, p3 + 1, e))>> :
             e \in {i \in Ends : i > p3 /\ U8Between(s, p3, i + 1)}} :
          p3 \in {i \in At("-") : i > p2 /\ U8Between(s, p2, i)}} :
          p2 \in {i \in At(".") : i > p1 /\ U8Between(s, p1, i)}} :
          p1 \in {i \in At(".") : U8Between(s, 0, i)}}

\* C13: get_python_version succeeds exactly when the version has its four
\* parts major, minor, release and package, each a number a u8 holds, and it
\* returns their values: 1.2.3-4 gives 1, 2, 3, 4; 1.2 and 1.2.3 fail.
C13_VersionNeedsFourNumericParts ==
    call_result.fn = "get_python_version" =>
       /\ call_result.ok <=> VersionsIn(call_arg) # {}
       /\ call_result.ok => VersionsIn(call_arg) = {call_result.value}
       /\ call_arg = V_1_2_3_4 => call_result.ok /\ call_result.value = <<1, 2, 3, 4>>
       /\ call_arg \in {V_1_2, V_1_2_3} => ~call_result.ok

\* 1.2.3-4 was parsed
C13_Witness ==
    /\ call_result.fn = "get_python_version"
    /\ call_arg = V_1_2_3_4
    /\ call_result.ok
    /\ call_result.value = <<1, 2, 3, 4>>

(***************************************************************************)
(* The inventory.                                                          *)
(***************************************************************************)
\* C14: the packages main() audits are the command-line arguments when there
\* is one, and the foreign packages pacman -Qqm prints when there is none.
C14_AuditsArgumentsWhenGiven ==
    (call_result.fn = "get_aur_packages" /\ call_result.ok) =>
       Range(aur_packages) =
          IF call_arg.args # <<>> THEN Range(call_arg.args)
          ELSE Range(call_arg.output.lines)

\* What holds for C14: the inventory is what pacman -Qqm prints, whatever the
\* arguments are, and main() is aborted when the command fails.
AuditsForeignPackages ==
    call_result.fn = "get_aur_packages" =>
       IF call_arg.output.success
         THEN aur_packages = call_arg.output.lines /\ pc # "aborted"
         ELSE pc = "aborted"

(***************************************************************************)
(* The progress bar and the pools.                                         *)
(***************************************************************************)
\* an executable of package p is on the executable file channel
Queued(p) == \E i \in 1..Len(exec_files_chan) : exec_files_chan[i].package = p
\* a check worker holds an executable of package p
BeingChecked(p) == \E w \in DOMAIN check : check[w].work.package = p
\* a discovery worker has executables of package p left to send
BeingSent(p) == \E w \in DOMAIN disc : disc[w].pc = "listed" /\ disc[w].package = p

ProgressWhenPackageDequeued ==
    [][\A p \in Packages :
          inc_log'[p] # inc_log[p] =>
             /\ (~Queued(p))' /\ (~BeingSent(p))'
             /\ cpu_count = 1 => (~BeingChecked(p))']_vars

\* the work items of the discovery stage are the packages, those of the check
\* stage the executable files of the packages
DiscoveryItems == Len(aur_packages)
CheckItems == Len(Flatten([i \in 1..Len(aur_packages) |-> DiscoveredFiles(aur_packages[i])]))
Smaller(a, b) == IF a < b THEN a ELSE b

\* C16: once its pool is spawned, a stage has as many workers as there are
\* processors, or as it has work items when that is less.
C16_PoolsCappedByWorkItems ==
    /\ pc \notin {"spawn_check", "spawn_discovery"} =>
          Cardinality(DOMAIN disc) = Smaller(cpu_count, DiscoveryItems)
    /\ pc # "spawn_check" =>
          Cardinality(DOMAIN check) = Smaller(cpu_count, CheckItems)

\* What holds for C16: the discovery pool has as many workers as there are
\* processors, or packages when that is less; the check pool has as many
\* workers as there are processors, whatever there is to check.
DiscoveryPoolCappedByPackages ==
    /\ pc \notin {"spawn_check", "spawn_discovery"} =>
          Cardinality(DOMAIN disc) = Smaller(cpu_count, DiscoveryItems)
    /\ pc # "spawn_check" => Cardinality(DOMAIN check) = cpu_count

(***************************************************************************)
(* What travels on the channels.                                           *)
(***************************************************************************)
\* the chain of links that starts at path, or path itself, ends at a regular
\* file with an execute bit
RECURSIVE EndsAtExecutable(_, _, _)
EndsAtExecutable(fs, path, seen) ==
    IF path \notin DOMAIN fs \/ path \in seen THEN FALSE
    ELSE IF fs[path].kind = "symlink"
      THEN EndsAtExecutable(fs, fs[path].target, seen \cup {path})
    ELSE fs[path].kind = "file" /\ fs[path].exec

\* pacman -Ql succeeds for package p and lists f, an executable regular file
IsExecutableOf(p, f) ==
    /\ PacmanQl(p).success
    /\ \E i \in 1..Len(PacmanQl(p).lines) : PacmanQl(p).lines[i][2] = f
    /\ EndsAtExecutable(FileSystem, f, {})

\* an ldd of f that was started and exited with success printed a line ending
\* in "=> not found" whose first token is name
IsParsedName(f, name) ==
    \E output \in LddOutcomes(f) :
        /\ output.spawned /\ output.success
        /\ \E i \in 1..Len(output.lines) :
              /\ EndsNotFound(output.lines[i])
              /\ IsFirstTokenTrimmed(output.lines[i], name)

IsGoodRecord(record) ==
    IsExecutableOf(record[1], record[2]) /\ IsParsedName(record[2], record[3])

\* C17: every work unit on the executable file channel, and every one a check
\* worker has received, is an executable regular file listed for its package
\* by a pacman -Ql that succeeded; every record sent on the missing deps
\* channel is a name parsed from an ldd of such a file that exited with
\* success; a listing or an ldd that failed has put nothing on a channel.
C17_OnlySuccessfulResultsOnChannels ==
    /\ \A i \in 1..Len(exec_files_chan) :
          IsExecutableOf(exec_files_chan[i].package, exec_files_chan[i].exec_filepath)
    /\ \A w \in DOMAIN check :
          check[w].pc = "checked" =>
             IsExecutableOf(check[w].work.package, check[w].work.exec_filepath)
    /\ \A i \in 1..Len(missing_deps_chan) : IsGoodRecord(missing_deps_chan[i])
    /\ \A i \in 1..Len(sent_deps) : IsGoodRecord(sent_deps[i])
    /\ \A p \in FailedPackages :
          /\ \A i \in 1..Len(exec_files_chan) : exec_files_chan[i].package # p
          /\ \A i \in 1..Len(sent_deps) : sent_deps[i][1] # p

\* the scopes have ended for an inventory of pkgFail, whose listing fails, and
\* pkgTwo, whose second file has no ldd that succeeds: the two records of the
\* first file of pkgTwo are all that was sent
C17_Witness ==
    /\ pc \in ScopeEndedPcs
    /\ aur_packages = <<"pkgFail", "pkgTwo">>
    /\ sent_deps = << <<"pkgTwo", "/opt/x/c", libbar>>, <<"pkgTwo", "/opt/x/c", libbar>> >>
    /\ exec_files_chan = <<>>

(***************************************************************************)
(* Symlinks in the discovery stage.                                        *)
(***************************************************************************)
\* the path listed for the package was kept as one of its executable files
Retained == call_result.ok /\ call_result.value = <<call_arg.path>>

\* the entry reached from path by following one link, if path is a link, is
\* a regular file with an execute bit
ExecutableAfterOneHop(fs, path) ==
    /\ path \in DOMAIN fs
    /\ LET p == IF fs[path].kind = "symlink" THEN fs[path].target ELSE path IN
       p \in DOMAIN fs /\ fs[p].kind = "file" /\ fs[p].exec

\* C18: get_package_executable_files keeps a path exactly when the entry one
\* hop away from it (the entry itself when it is no symlink) is a regular file
\* with an execute bit; a path that reaches such a file through two or more
\* symlinks is not kept.
C18_DiscoveryFollowsOneHop ==
    call_result.fn = "get_package_executable_files" =>
       /\ Retained <=> ExecutableAfterOneHop(call_arg.fs, call_arg.path)
       /\ (DepthOfLink >= 2 /\ EndsAtExecutable(call_arg.fs, call_arg.path, {})) =>
             ~Retained

\* What holds for C18: get_package_executable_files keeps a path exactly when
\* the chain of symlinks that starts at it, however long, ends at a regular
\* file with an execute bit.
DiscoveryFollowsWholeChain ==
    call_result.fn = "get_package_executable_files" =>
       /\ call_result.ok
       /\ Retained <=> EndsAtExecutable(call_arg.fs, call_arg.path, {})
       /\ ~Retained => call_result.value = <<>>

\* a path that reaches an executable through three symlinks was kept
DeepChainRetained ==
    /\ call_result.fn = "get_package_executable_files"
    /\ DepthOfLink = 3
    /\ Retained

(***************************************************************************)
(* The progress bar.                                                       *)
(***************************************************************************)
\* the length the progress bar is created with (lines 303-306)
Total == Len(aur_packages) + Len(enabled_sd_service_links)

\* the calls of progress.inc so far: those made for the packages and one for
\* each turn of the loop of the service links
IncCalls ==
    Len(Flatten([i \in 1..Len(PackageNames) |-> inc_log[PackageNames[i]]]))
    + (next_link - 1)

\* C19: the position of the progress bar is never above its length; it is the
\* number of calls of progress.inc made so far by the discovery workers, the
\* check workers and the loop of the service links, none being lost; and once
\* the outer scope has returned it is the length exactly.
C19_ProgressReachesTotal ==
    /\ progress <= Total
    /\ progress = IncCalls
    /\ pc \in ReportPcs => progress = Total

\* the outer scope has returned after two check workers and two discovery
\* workers processed a package without executables and a package with two,
\* and the main thread two service links
C19_Witness ==
    /\ pc = "drain"
    /\ cpu_count = 2
    /\ aur_packages = <<"pkgEmpty", "pkgTwo">>
    /\ Len(enabled_sd_service_links) = 2
    /\ progress = 4

(***************************************************************************)
(* The receive loops.                                                      *)
(***************************************************************************)
\* the packages main() has sent so far (lines 404-407)
Enqueued == SubSeq(aur_packages, 1, next_package - 1)

\* every work unit the discovery stage makes of the installed packages
AllWork ==
    UNION {{exec_file_work(p, DiscoveredFiles(p), i) : i \in 1..Len(DiscoveredFiles(p))} :
           p \in Range(aur_packages)}

\* main() is past line 409: the discovery workers were joined
DiscoveryJoinedPcs == {"sd_links", "join_check", "unwinding"} \cup ScopeEndedPcs

OnceEach(bag) == \A m \in BagToSet(bag) : CopiesIn(m, bag) = 1

SameBag(a, b) ==
    /\ BagToSet(a) = BagToSet(b)
    /\ \A m \in BagToSet(a) : CopiesIn(m, a) = CopiesIn(m, b)

\* C20: a worker that has left its receive loop has seen its channel empty
\* with no sender left; nothing sent is lost or received twice (what was sent
\* is what was received plus what is still queued, each message once); once
\* the discovery workers are joined every package was received, and once the
\* check workers are joined every work unit of every package was received.
C20_EveryMessageReceivedOnce ==
    /\ \A w \in DOMAIN disc :
          disc[w].pc = "exited" => package_tx = 0 /\ package_chan = <<>>
    /\ \A w \in DOMAIN check :
          check[w].pc = "exited" => exec_files_tx = 0 /\ exec_files_chan = <<>>
    /\ SameBag(SeqToBag(Enqueued), recv_log.packages (+) SeqToBag(package_chan))
    /\ SameBag(recv_log.sent_work, recv_log.work (+) SeqToBag(exec_files_chan))
    /\ OnceEach(recv_log.packages)
    /\ OnceEach(recv_log.work)
    /\ pc \in DiscoveryJoinedPcs => BagToSet(recv_log.packages) = Range(aur_packages)
    /\ pc \in ScopeEndedPcs => BagToSet(recv_log.work) = AllWork

\* both channels are closed while a work unit is still queued: main() has
\* dropped package_tx, the discovery workers have received both packages and
\* left, and a check worker has yet to receive the last file of pkgTwo
C20_Witness ==
    /\ package_tx = 0
    /\ exec_files_tx = 0
    /\ exec_files_chan # <<>>
    /\ cpu_count = 2
    /\ aur_packages = <<"pkgEmpty", "pkgTwo">>
    /\ BagToSet(recv_log.packages) = {"pkgEmpty", "pkgTwo"}
    /\ recv_log.work # EmptyBag

\* the package channel is closed while both packages are still queued
ClosedWithPackagesQueued ==
    /\ package_tx = 0
    /\ Len(package_chan) = 2
    /\ cpu_count = 2

=============================================================================
